---------------------------- MODULE Spec2Model ----------------------------
(***************************************************************************)
(* A model of the job-data pipeline: DataCleaner (text normalisation,      *)
(* validation, deduplication) and DataAnnotator (keyword classification).  *)
(* Python str values are TLA+ strings; a character is a string of length   *)
(* one.  A Python value that need not be a str is a record                 *)
(* [kind, s, n] (see PyStr, PyNone, PyInt).                                *)
(***************************************************************************)
EXTENDS Integers, Sequences, FiniteSets, TLC

VARIABLES
    op,             \* "main", or the function the behaviour calls
    arg,            \* the arguments of the call under study
    ret,            \* what the call returned; for clean_data and annotate_data,
                    \* the counts returned so far
    raw_file,       \* data/raw_jobs.json: NoFile, or File(raw entries)
    cleaned_data,   \* DataCleaner.cleaned_data
    cleaned_file,   \* data/cleaned_jobs.json: NoFile, or File(cleaned entries)
    annotated_data, \* DataAnnotator.annotated_data
    annotated_file, \* data/annotated_jobs.json: NoFile, or File(annotated entries)
    main_ret,       \* what main() returned: "none" while it runs, "True", "False"
    pc              \* position in main(): "scrape", "clean", "annotate", "done",
                    \* "scrape_failed", "clean_failed", "annotate_failed"; of a
                    \* call: "call", "returned", "raised"

vars ==
    <<op, arg, ret, raw_file, cleaned_data, cleaned_file, annotated_data,
      annotated_file, main_ret, pc>>

(***************************************************************************)
(* Python values                                                           *)
(***************************************************************************)
PyStr(s) == [kind |-> "str", s |-> s, n |-> 0]
PyNone == [kind |-> "none", s |-> "", n |-> 0]
PyInt(n) == [kind |-> "int", s |-> "", n |-> n]

\* Python truthiness of a value: `not v` is ~Truthy(v).
Truthy(v) ==
    CASE v.kind = "str" -> v.s # ""
      [] v.kind = "int" -> v.n # 0
      [] OTHER -> FALSE

isinstance_str(v) == v.kind = "str"

(***************************************************************************)
(* Characters and strings                                                  *)
(***************************************************************************)
Ch(s, i) == SubSeq(s, i, i)
Take(s, n) == SubSeq(s, 1, n)
Drop(s, n) == SubSeq(s, n + 1, Len(s))

UpperAlpha == "ABCDEFGHIJKLMNOPQRSTUVWXYZ"
LowerAlpha == "abcdefghijklmnopqrstuvwxyz"
DigitChars == "0123456789"

CharsOf(s) == {Ch(s, i) : i \in 1..Len(s)}
UpperChars == CharsOf(UpperAlpha)
LowerChars == CharsOf(LowerAlpha)
Digits == CharsOf(DigitChars)
WordChars == UpperChars \cup LowerChars \cup Digits \cup {"_"}

IsUpper(c) == c \in UpperChars
IsLower(c) == c \in LowerChars
IsLetter(c) == IsUpper(c) \/ IsLower(c)
IsDigit(c) == c \in Digits
\* \w of the re module
IsWord(c) == c \in WordChars
\* \s of the re module, and the characters str.strip() removes
IsSpace(c) == c \in {" ", "\t", "\n", "\r"}

IndexIn(c, alpha) == CHOOSE i \in 1..Len(alpha) : Ch(alpha, i) = c
ToLower == [c \in UpperChars |-> Ch(LowerAlpha, IndexIn(c, UpperAlpha))]
ToUpper == [c \in LowerChars |-> Ch(UpperAlpha, IndexIn(c, LowerAlpha))]
LowerCh(c) == IF IsUpper(c) THEN ToLower[c] ELSE c
UpperCh(c) == IF IsLower(c) THEN ToUpper[c] ELSE c

\* str.lower(): each character lowered (the halves keep the recursion shallow
\* on long texts)
RECURSIVE lower(_)
lower(s) ==
    IF Len(s) <= 1 THEN LowerCh(s)
    ELSE lower(Take(s, Len(s) \div 2)) \o lower(Drop(s, Len(s) \div 2))

\* str.lstrip(), str.rstrip(), str.strip()
RECURSIVE lstrip(_)
lstrip(s) == IF s # "" /\ IsSpace(Ch(s, 1)) THEN lstrip(Tail(s)) ELSE s

RECURSIVE rstrip(_)
rstrip(s) ==
    IF s # "" /\ IsSpace(Ch(s, Len(s))) THEN rstrip(Take(s, Len(s) - 1)) ELSE s

strip(s) == rstrip(lstrip(s))

\* str.title(): a letter is upper-cased when the character before it is not
\* a letter and lower-cased otherwise.
RECURSIVE TitleFrom(_, _)
TitleFrom(s, prevCased) ==
    IF s = "" THEN ""
    ELSE LET c == Ch(s, 1) IN
         (IF IsLetter(c)
          THEN (IF prevCased THEN LowerCh(c) ELSE UpperCh(c))
          ELSE c) \o TitleFrom(Tail(s), IsLetter(c))

title(s) == TitleFrom(s, FALSE)

\* str.startswith(k)
StartsWith(s, k) == Len(s) >= Len(k) /\ SubSeq(s, 1, Len(k)) = k

\* `k in t` for strings
Contains(t, k) ==
    \E i \in 1..(Len(t) - Len(k) + 1) : SubSeq(t, i, i + Len(k) - 1) = k

\* any(word in t for word in words)
ContainsAny(t, words) == \E i \in 1..Len(words) : Contains(t, words[i])

(***************************************************************************)
(* html.unescape, for the named character references of Html5Names (with   *)
(* and without the closing ';').  Texts of the model hold no numeric       *)
(* reference ("&#" followed by a digit).                                   *)
(***************************************************************************)
Html5Names == {"lt;", "lt", "gt;", "gt", "amp;", "amp", "quot;", "quot"}

html5(name) ==
    CASE name \in {"lt;", "lt"} -> "<"
      [] name \in {"gt;", "gt"} -> ">"
      [] name \in {"amp;", "amp"} -> "&"
      [] name \in {"quot;", "quot"} -> "\""

\* [^\t\n\f <&#;]
IsRefChar(c) == c \notin {"\t", "\n", "\f", " ", "<", "&", "#", ";"}

\* length of the longest prefix of s made of reference-name characters (at most 32)
RECURSIVE RefRunLen(_)
RefRunLen(s) ==
    IF s # "" /\ IsRefChar(Ch(s, 1)) THEN 1 + RefRunLen(Tail(s)) ELSE 0

\* html.unescape's replace_charref on the text after '&'
replace_charref(s) ==
    IF s \in Html5Names THEN html5(s)
    ELSE LET fits == {x \in 2..(Len(s) - 1) : Take(s, x) \in Html5Names} IN
         IF fits # {}
         THEN LET x == CHOOSE y \in fits : \A z \in fits : z <= y IN
              html5(Take(s, x)) \o Drop(s, x)
         ELSE "&" \o s

RECURSIVE html_unescape(_)
html_unescape(s) ==
    IF s = "" THEN ""
    ELSE IF Ch(s, 1) # "&" THEN Ch(s, 1) \o html_unescape(Tail(s))
    ELSE LET rest == Tail(s)
             run == RefRunLen(rest)
             n == IF Len(rest) > run /\ Ch(rest, run + 1) = ";" THEN run + 1 ELSE run
         IN  IF run = 0 THEN "&" \o html_unescape(rest)
             ELSE replace_charref(Take(rest, n)) \o html_unescape(Drop(rest, n))

(***************************************************************************)
(* DataCleaner.clean_text                                                  *)
(***************************************************************************)
\* position of the first '>' of s, 0 when there is none
RECURSIVE FirstGt(_)
FirstGt(s) ==
    IF s = "" THEN 0
    ELSE IF Ch(s, 1) = ">" THEN 1
    ELSE LET r == FirstGt(Tail(s)) IN IF r = 0 THEN 0 ELSE r + 1

\* re.sub(r'<[^>]+>', ' ', text)
RECURSIVE strip_tags(_)
strip_tags(s) ==
    IF s = "" THEN ""
    ELSE IF Ch(s, 1) = "<" /\ FirstGt(Tail(s)) >= 2
         THEN " " \o strip_tags(Drop(s, 1 + FirstGt(Tail(s))))
         ELSE Ch(s, 1) \o strip_tags(Tail(s))

\* re.sub(r'\s+', ' ', text)
RECURSIVE collapse_whitespace(_)
collapse_whitespace(s) ==
    IF s = "" THEN ""
    ELSE IF IsSpace(Ch(s, 1))
         THEN " " \o collapse_whitespace(lstrip(s))
         ELSE Ch(s, 1) \o collapse_whitespace(Tail(s))

\* the characters [\w\s\.\,\!\?\-\(\)\/] keeps
IsKept(c) == IsWord(c) \/ IsSpace(c) \/ c \in {".", ",", "!", "?", "-", "(", ")", "/"}

\* re.sub(r'[^\w\s\.\,\!\?\-\(\)\/]', '', text)
RECURSIVE remove_special(_)
remove_special(s) ==
    IF s = "" THEN ""
    ELSE (IF IsKept(Ch(s, 1)) THEN Ch(s, 1) ELSE "") \o remove_special(Tail(s))

clean_text_str(s) ==
    strip(remove_special(collapse_whitespace(strip_tags(html_unescape(s)))))

clean_text(text) ==
    IF ~Truthy(text) \/ ~isinstance_str(text) THEN "" ELSE clean_text_str(text.s)

(***************************************************************************)
(* DataCleaner.normalize_company_name, DataCleaner.normalize_job_title     *)
(***************************************************************************)
RECURSIVE WordRunLen(_)
WordRunLen(s) == IF s # "" /\ IsWord(Ch(s, 1)) THEN 1 + WordRunLen(Tail(s)) ELSE 0

LegalSuffixes == {"inc", "ltd", "llc", "corp", "corporation", "company", "co"}

\* re.sub(r'\b(Inc|Ltd|LLC|Corp|Corporation|Company|Co)\b\.?', '', company,
\*        flags=re.IGNORECASE): a whole word of the list goes, with the '.'
\* that follows it.
RECURSIVE RemoveSuffixWords(_, _)
RemoveSuffixWords(s, prevIsWord) ==
    IF s = "" THEN ""
    ELSE IF IsWord(Ch(s, 1)) /\ ~prevIsWord
    THEN LET n == WordRunLen(s)
             w == Take(s, n)
             m == IF Len(s) > n /\ Ch(s, n + 1) = "." THEN n + 1 ELSE n
         IN  IF lower(w) \in LegalSuffixes
             THEN RemoveSuffixWords(Drop(s, m), m = n)
             ELSE w \o RemoveSuffixWords(Drop(s, n), TRUE)
    ELSE Ch(s, 1) \o RemoveSuffixWords(Tail(s), IsWord(Ch(s, 1)))

remove_legal_suffixes(s) == RemoveSuffixWords(s, FALSE)

\* a normalizer without the final fallback
normalize_company_name_NoFallback(company) ==
    IF ~Truthy(company) \/ ~isinstance_str(company) THEN "Unknown Company"
    ELSE strip(title(remove_legal_suffixes(clean_text(company))))

normalize_company_name(company) ==
    IF ~Truthy(company) \/ ~isinstance_str(company) THEN "Unknown Company"
    ELSE LET c == strip(title(remove_legal_suffixes(clean_text(company)))) IN
         IF c # "" THEN c ELSE "Unknown Company"

Expansion(w) ==
    CASE w = "Sr" -> "Senior"
      [] w = "Jr" -> "Junior"
      [] w = "Mgr" -> "Manager"
      [] OTHER -> w

\* re.sub(r'\bSr\b', 'Senior', ..), then Jr -> Junior, then Mgr -> Manager
RECURSIVE ExpandWords(_, _)
ExpandWords(s, prevIsWord) ==
    IF s = "" THEN ""
    ELSE IF IsWord(Ch(s, 1)) /\ ~prevIsWord
    THEN LET n == WordRunLen(s) IN
         Expansion(Take(s, n)) \o ExpandWords(Drop(s, n), TRUE)
    ELSE Ch(s, 1) \o ExpandWords(Tail(s), IsWord(Ch(s, 1)))

expand_abbreviations(s) == ExpandWords(s, FALSE)

\* a normalizer that returns the empty string for a missing title
normalize_job_title_NoSentinel(t) ==
    IF ~Truthy(t) \/ ~isinstance_str(t) THEN ""
    ELSE LET x == expand_abbreviations(title(clean_text(t))) IN
         IF strip(x) # "" THEN strip(x) ELSE "Unknown Position"

normalize_job_title(t) ==
    IF ~Truthy(t) \/ ~isinstance_str(t) THEN "Unknown Position"
    ELSE LET x == expand_abbreviations(title(clean_text(t))) IN
         IF strip(x) # "" THEN strip(x) ELSE "Unknown Position"

(***************************************************************************)
(* DataCleaner.remove_duplicates, DataCleaner.validate_entry               *)
(***************************************************************************)
\* dict.get(key, default)
get(entry, key, default) == IF key \in DOMAIN entry THEN entry[key] ELSE default

\* a key that compares titles and companies case-sensitively
dedup_key_CaseSensitive(item) ==
    strip(get(item, "title", "")) \o "_" \o strip(get(item, "company", ""))

\* f"{item.get('title', '').lower().strip()}_{item.get('company', '').lower().strip()}"
dedup_key(item) ==
    strip(lower(get(item, "title", ""))) \o "_" \o strip(lower(get(item, "company", "")))

\* a loop in which a later record with a seen key replaces the earlier one
RECURSIVE DedupLoop_LastWins(_, _, _)
DedupLoop_LastWins(data, seen, unique_data) ==
    IF data = <<>> THEN unique_data
    ELSE LET item == Head(data)
             key == dedup_key(item)
         IN  IF key \notin seen
             THEN DedupLoop_LastWins(Tail(data), seen \cup {key}, Append(unique_data, item))
             ELSE DedupLoop_LastWins(Tail(data), seen,
                      [i \in 1..Len(unique_data) |->
                          IF dedup_key(unique_data[i]) = key THEN item ELSE unique_data[i]])

\* the loop of remove_duplicates over the rest of data
RECURSIVE DedupLoop(_, _, _)
DedupLoop(data, seen, unique_data) ==
    IF data = <<>> THEN unique_data
    ELSE LET item == Head(data)
             key == dedup_key(item)
         IN  IF key \notin seen
             THEN DedupLoop(Tail(data), seen \cup {key}, Append(unique_data, item))
             ELSE DedupLoop(Tail(data), seen, unique_data)

remove_duplicates(data) == DedupLoop(data, {}, <<>>)

MinDescriptionLen == 10

\* a validator that accepts a description one character short
validate_entry_OffByOne(entry) ==
    LET t == strip(get(entry, "title", ""))
        description == strip(get(entry, "description", ""))
    IN  t # "" /\ Len(description) >= MinDescriptionLen - 1

validate_entry(entry) ==
    LET t == strip(get(entry, "title", ""))
        description == strip(get(entry, "description", ""))
    IN  IF t = "" THEN FALSE
        ELSE IF Len(description) < MinDescriptionLen THEN FALSE
        ELSE TRUE

(***************************************************************************)
(* DataCleaner.clean_data                                                  *)
(***************************************************************************)
\* entry.get('source', 'Unknown').strip() and entry.get('type', 'job').strip()
\* raise AttributeError when the value is not a str.
StripRaises(entry, key) == key \in DOMAIN entry /\ ~isinstance_str(entry[key])

EntryRaises(entry) == StripRaises(entry, "source") \/ StripRaises(entry, "type")

\* entry.get('score', 0) if entry.get('score') is not None else 0
clean_score(entry) ==
    IF get(entry, "score", PyNone) # PyNone THEN get(entry, "score", PyInt(0))
    ELSE PyInt(0)

\* the dict built for an entry whose source and type are strings or absent
cleaned_entry(entry) ==
    [source |-> strip(get(entry, "source", PyStr("Unknown")).s),
     title |-> normalize_job_title(get(entry, "title", PyStr(""))),
     company |-> normalize_company_name(get(entry, "company", PyStr(""))),
     description |-> clean_text(get(entry, "description", PyStr(""))),
     type |-> strip(get(entry, "type", PyStr("job")).s),
     score |-> clean_score(entry)]

\* a loop that marks an entry's key as seen before validating the entry
RECURSIVE CleanLoopSeen(_, _, _)
CleanLoopSeen(raw_data, acc, seen) ==
    IF raw_data = <<>> THEN [data |-> acc, raised |-> FALSE]
    ELSE LET entry == Head(raw_data) IN
         IF EntryRaises(entry) THEN [data |-> acc, raised |-> TRUE]
         ELSE LET e == cleaned_entry(entry) IN
              IF dedup_key(e) \notin seen /\ validate_entry(e)
              THEN CleanLoopSeen(Tail(raw_data), Append(acc, e), seen \cup {dedup_key(e)})
              ELSE CleanLoopSeen(Tail(raw_data), acc, seen \cup {dedup_key(e)})

CleanLoop_DedupFirst(raw_data, acc) == CleanLoopSeen(raw_data, acc, {})

\* the for loop of clean_data over the rest of raw_data: the entries appended to
\* self.cleaned_data, and whether an entry raised (the loop stops there)
RECURSIVE CleanLoop(_, _)
CleanLoop(raw_data, acc) ==
    IF raw_data = <<>> THEN [data |-> acc, raised |-> FALSE]
    ELSE LET entry == Head(raw_data) IN
         IF EntryRaises(entry) THEN [data |-> acc, raised |-> TRUE]
         ELSE IF validate_entry(cleaned_entry(entry))
              THEN CleanLoop(Tail(raw_data), Append(acc, cleaned_entry(entry)))
              ELSE CleanLoop(Tail(raw_data), acc)

(***************************************************************************)
(* DataAnnotator.classify_experience_level                                 *)
(***************************************************************************)
\* self.experience_keywords, in insertion order
experience_keywords ==
    << <<"Entry Level",
         <<"entry", "junior", "graduate", "intern", "0-2 years", "beginner", "new grad">> >>,
       <<"Mid Level",
         <<"mid", "intermediate", "2-5 years", "3-5 years", "experienced">> >>,
       <<"Senior Level",
         <<"senior", "sr", "lead", "5+ years", "6+ years", "expert", "principal">> >>,
       <<"Management",
         <<"manager", "mgr", "director", "vp", "head of", "team lead", "tech lead">> >> >>

\* for category, keywords in table.items(): for keyword in keywords:
\*     if keyword in text: return category        ("" when the loops end)
RECURSIVE KeywordLoop(_, _, _)
KeywordLoop(table, text, i) ==
    IF i > Len(table) THEN ""
    ELSE IF ContainsAny(text, table[i][2]) THEN table[i][1]
    ELSE KeywordLoop(table, text, i + 1)

RECURSIVE DigitRunLen(_)
DigitRunLen(s) == IF s # "" /\ IsDigit(Ch(s, 1)) THEN 1 + DigitRunLen(Tail(s)) ELSE 0

\* [\+\-\s]
IsYearSep(c) == c \in {"+", "-"} \/ IsSpace(c)

RECURSIVE YearSepRunLen(_)
YearSepRunLen(s) == IF s # "" /\ IsYearSep(Ch(s, 1)) THEN 1 + YearSepRunLen(Tail(s)) ELSE 0

\* int(match) for a string of digits
RECURSIVE int(_)
int(s) ==
    IF s = "" THEN 0
    ELSE 10 * int(Take(s, Len(s) - 1)) + (IndexIn(Ch(s, Len(s)), DigitChars) - 1)

\* [int(match) for match in re.findall(r'(\d+)[\+\-\s]*years?', text_lower)]
RECURSIVE findall_years(_)
findall_years(s) ==
    IF s = "" THEN <<>>
    ELSE IF ~IsDigit(Ch(s, 1)) THEN findall_years(Tail(s))
    ELSE LET d == DigitRunLen(s)
             rest == Drop(s, d + YearSepRunLen(Drop(s, d)))
         IN  IF StartsWith(rest, "year")
             THEN <<int(Take(s, d))>>
                  \o findall_years(Drop(rest, IF StartsWith(rest, "years") THEN 5 ELSE 4))
             ELSE findall_years(Tail(s))

\* max(years)
RECURSIVE max(_)
max(xs) ==
    IF Len(xs) = 1 THEN xs[1]
    ELSE LET m == max(Tail(xs)) IN IF xs[1] >= m THEN xs[1] ELSE m

\* a classifier that maps the first year pattern, not the largest
classify_experience_level_FirstYear(text) ==
    IF text = "" THEN "Not Specified"
    ELSE LET text_lower == lower(text)
             level == KeywordLoop(experience_keywords, text_lower, 1)
             matches == findall_years(text_lower)
         IN  IF level # "" THEN level
             ELSE IF matches # <<>>
             THEN (IF matches[1] <= 2 THEN "Entry Level"
                   ELSE IF matches[1] <= 5 THEN "Mid Level"
                   ELSE "Senior Level")
             ELSE "Not Specified"

classify_experience_level(text) ==
    IF text = "" THEN "Not Specified"
    ELSE LET text_lower == lower(text)
             level == KeywordLoop(experience_keywords, text_lower, 1)
             matches == findall_years(text_lower)
         IN  IF level # "" THEN level
             ELSE IF matches # <<>>
             THEN LET years == max(matches) IN
                  IF years <= 2 THEN "Entry Level"
                  ELSE IF years <= 5 THEN "Mid Level"
                  ELSE "Senior Level"
             ELSE "Not Specified"

(***************************************************************************)
(* DataAnnotator.classify_content_type                                     *)
(***************************************************************************)
\* a table whose first row lacks the words of the fallback step
content_types_WithoutFallbackWords ==
    << <<"Job Description", <<"role", "opportunity", "requirements">> >>,
       <<"Interview Question",
         <<"interview", "question", "how to", "explain", "what is", "why">> >>,
       <<"Career Advice",
         <<"career", "advice", "tips", "how to become", "path", "guidance">> >>,
       <<"Technical Discussion",
         <<"discussion", "best practices", "comparison", "vs", "opinion">> >>,
       <<"Company Info",
         <<"company", "culture", "benefits", "team", "about us", "mission">> >> >>

\* self.content_types, in insertion order
content_types ==
    << <<"Job Description",
         <<"hiring", "position", "role", "opportunity", "apply", "requirements">> >>,
       <<"Interview Question",
         <<"interview", "question", "how to", "explain", "what is", "why">> >>,
       <<"Career Advice",
         <<"career", "advice", "tips", "how to become", "path", "guidance">> >>,
       <<"Technical Discussion",
         <<"discussion", "best practices", "comparison", "vs", "opinion">> >>,
       <<"Company Info",
         <<"company", "culture", "benefits", "team", "about us", "mission">> >> >>

\* a classifier that scans the keyword table before it looks at the source
classify_content_type_TableFirst(t, description, source) ==
    LET combined_text == lower(t \o " " \o description)
        content_type == KeywordLoop(content_types, combined_text, 1)
    IN  IF content_type # "" THEN content_type
        ELSE IF source = "StackOverflow" THEN "Interview Question"
        ELSE IF source = "Reddit"
                /\ ContainsAny(combined_text, <<"advice", "help", "career">>)
        THEN "Career Advice"
        ELSE IF ContainsAny(combined_text, <<"apply", "position", "hiring">>)
        THEN "Job Description"
        ELSE IF Contains(t, "?") THEN "Interview Question"
        ELSE "Technical Discussion"

classify_content_type(t, description, source) ==
    LET combined_text == lower(t \o " " \o description)
        content_type == KeywordLoop(content_types, combined_text, 1)
    IN  IF source = "StackOverflow" THEN "Interview Question"
        ELSE IF source = "Reddit"
                /\ ContainsAny(combined_text, <<"advice", "help", "career">>)
        THEN "Career Advice"
        ELSE IF content_type # "" THEN content_type
        ELSE IF ContainsAny(combined_text, <<"apply", "position", "hiring">>)
        THEN "Job Description"
        ELSE IF Contains(t, "?") THEN "Interview Question"
        ELSE "Technical Discussion"

(***************************************************************************)
(* DataAnnotator.extract_skills, DataAnnotator.calculate_relevance_score   *)
(***************************************************************************)
\* self.skill_keywords, in insertion order
skill_keywords ==
    << <<"Python", <<"python", "django", "flask", "fastapi", "pandas", "numpy">> >>,
       <<"JavaScript", <<"javascript", "js", "node", "react", "vue", "angular", "express">> >>,
       <<"Java", <<"java", "spring", "hibernate", "maven", "gradle">> >>,
       <<"DevOps", <<"docker", "kubernetes", "aws", "azure", "gcp", "terraform", "jenkins">> >>,
       <<"Database", <<"sql", "mysql", "postgresql", "mongodb", "redis", "elasticsearch">> >>,
       <<"Machine Learning",
         <<"ml", "ai", "tensorflow", "pytorch", "sklearn", "data science">> >>,
       <<"Cloud", <<"aws", "azure", "gcp", "cloud", "serverless", "lambda">> >>,
       <<"Frontend", <<"html", "css", "react", "vue", "angular", "typescript">> >>,
       <<"Backend", <<"api", "rest", "graphql", "microservices", "database">> >>,
       <<"Mobile", <<"ios", "android", "react native", "flutter", "swift", "kotlin">> >> >>

\* list(set(found_skills)): the order of the list follows the hashes of the
\* strings, which differ from one interpreter run to the next; the value here
\* is the set of the list's elements.
extract_skills(text) ==
    IF text = "" THEN {}
    ELSE LET text_lower == lower(text) IN
         {skill_keywords[i][1] :
             i \in {j \in 1..Len(skill_keywords) :
                       ContainsAny(text_lower, skill_keywords[j][2])}}

tech_keywords ==
    <<"software", "developer", "engineer", "programming", "code", "development",
      "python", "java", "javascript", "react", "node", "api", "database",
      "cloud", "aws", "docker", "git", "algorithm", "data structure">>

\* min(a, b)
min(a, b) == IF b < a THEN b ELSE a

\* A float of calculate_relevance_score is [th, up]: th is its value in
\* thousandths (k/10 and L/1000 are whole thousandths); up tells, for a value
\* that ends in 5 thousandths, whether the double lies above that decimal
\* (round(x, 2) then rounds up) or below it.
float(th, up) == [th |-> th, up |-> up /\ th % 10 = 5]

\* TieAbove[k + 1]: the lengths L (L % 10 = 5, L < 200) for which the double
\* min(k / 10, 1.0) + min(L / 1000, 0.2) lies above the decimal k/10 + L/1000
\* (IEEE 754 binary64, round to nearest even)
TieAbove ==
    << {5, 25, 35, 55, 65, 85, 95, 115, 135, 165, 195},
       {5, 15, 35, 45, 65, 95, 105, 115, 125, 135, 155, 165, 175, 185, 195},
       {5, 15, 25, 35, 55, 65, 75, 85, 95, 115, 125, 135, 175, 185, 195},
       {15, 25, 75, 85, 95},
       {5, 15, 25, 35, 45, 55, 65, 75, 85, 105, 115, 125, 135, 145, 155, 165},
       {5, 15, 25, 35, 45, 55, 135, 145, 155, 165, 175, 185, 195},
       {35, 45, 55, 65, 155, 165},
       {55, 175, 185, 195},
       {5, 15, 25, 35, 45, 55, 75, 85, 95, 105, 115, 125, 135, 145, 155, 165, 175,
        185, 195},
       {5, 15, 25, 35, 45, 55, 65} >>

\* a score without the final min(.., 1.0)
calculate_relevance_score_NoCap(text) ==
    IF ~Truthy(text) THEN float(0, FALSE)
    ELSE LET text_lower == lower(text.s)
             found_keywords ==
                 Cardinality({i \in 1..Len(tech_keywords) :
                                 Contains(text_lower, tech_keywords[i])})
             base_score == min((found_keywords * 1000) \div 10, 1000)
             length_bonus == min((Len(text.s) * 1000) \div 1000, 200)
         IN  float(base_score + length_bonus, FALSE)

calculate_relevance_score(text) ==
    IF ~Truthy(text) THEN float(0, FALSE)
    ELSE LET text_lower == lower(text.s)
             found_keywords ==
                 Cardinality({i \in 1..Len(tech_keywords) :
                                 Contains(text_lower, tech_keywords[i])})
             base_score == min((found_keywords * 1000) \div 10, 1000)
             length_bonus == min((Len(text.s) * 1000) \div 1000, 200)
         IN  float(min(base_score + length_bonus, 1000),
                   found_keywords < Len(TieAbove)
                       /\ Len(text.s) \in TieAbove[found_keywords + 1])

\* round(x, 2), in hundredths
round_2(x) ==
    IF x.th % 10 > 5 \/ (x.th % 10 = 5 /\ x.up) THEN x.th \div 10 + 1 ELSE x.th \div 10

(***************************************************************************)
(* DataAnnotator.estimate_company_size, DataAnnotator.annotate_entry       *)
(***************************************************************************)
estimate_company_size(company, text) ==
    LET text_lower == lower(company \o " " \o text) IN
    IF ContainsAny(text_lower,
                   <<"startup", "seed", "series a", "early stage", "fast-growing">>)
    THEN "Startup"
    ELSE IF ContainsAny(text_lower,
                        <<"fortune", "enterprise", "global", "multinational", "thousands">>)
    THEN "Large Corporation"
    ELSE "Medium Company"

\* the annotations dict of annotate_entry; text_length is the length of
\* full_text in the variant
annotations_FullTextLength(entry) ==
    LET t == get(entry, "title", "")
        description == get(entry, "description", "")
        company == get(entry, "company", "")
        source == get(entry, "source", "")
        full_text == t \o " " \o description
    IN  [skill_tags |-> extract_skills(full_text),
         experience_level |-> classify_experience_level(full_text),
         content_type |-> classify_content_type(t, description, source),
         relevance_score |-> round_2(calculate_relevance_score(PyStr(full_text))),
         text_length |-> Len(full_text),
         has_requirements |->
             Contains(lower(full_text), "requirements")
                 \/ Contains(lower(full_text), "required"),
         remote_work |->
             ContainsAny(lower(full_text),
                         <<"remote", "work from home", "distributed", "telecommute">>),
         company_size |-> estimate_company_size(company, full_text)]

annotations(entry) ==
    LET t == get(entry, "title", "")
        description == get(entry, "description", "")
        company == get(entry, "company", "")
        source == get(entry, "source", "")
        full_text == t \o " " \o description
    IN  [skill_tags |-> extract_skills(full_text),
         experience_level |-> classify_experience_level(full_text),
         content_type |-> classify_content_type(t, description, source),
         relevance_score |-> round_2(calculate_relevance_score(PyStr(full_text))),
         text_length |-> Len(description),
         has_requirements |->
             Contains(lower(full_text), "requirements")
                 \/ Contains(lower(full_text), "required"),
         remote_work |->
             ContainsAny(lower(full_text),
                         <<"remote", "work from home", "distributed", "telecommute">>),
         company_size |-> estimate_company_size(company, full_text)]

\* dict.update on a copy: the keys of both, the values of `other` where it has
\* the key
update(copy, other) ==
    [key \in DOMAIN copy \cup DOMAIN other |->
        IF key \in DOMAIN other THEN other[key] ELSE copy[key]]

\* annotated_entry = entry.copy(); annotated_entry.update(annotations)
annotate_entry(entry) == update(entry, annotations(entry))

(***************************************************************************)
(* DataAnnotator.annotate_data                                             *)
(***************************************************************************)
\* the for loop of annotate_data: self.annotated_data after the loop
RECURSIVE AnnotateLoop(_, _)
AnnotateLoop(cleaned, acc) ==
    IF cleaned = <<>> THEN acc
    ELSE AnnotateLoop(Tail(cleaned), Append(acc, annotate_entry(Head(cleaned))))

\* x.get('relevance_score', 0)
sort_key(x) == get(x, "relevance_score", 0)

\* an insertion that puts x before the records of equal score
RECURSIVE Insert_BeforeEqual(_, _)
Insert_BeforeEqual(sorted, x) ==
    IF sorted = <<>> THEN <<x>>
    ELSE IF sort_key(Head(sorted)) > sort_key(x)
         THEN <<Head(sorted)>> \o Insert_BeforeEqual(Tail(sorted), x)
         ELSE <<x>> \o sorted

\* x inserted into a list sorted by descending key, after the records whose
\* key is at least x's
RECURSIVE Insert(_, _)
Insert(sorted, x) ==
    IF sorted = <<>> THEN <<x>>
    ELSE IF sort_key(Head(sorted)) >= sort_key(x)
         THEN <<Head(sorted)>> \o Insert(Tail(sorted), x)
         ELSE <<x>> \o sorted

\* list.sort(key=lambda x: x.get('relevance_score', 0), reverse=True): the
\* sort is stable, and reverse=True keeps the order of records of equal key
RECURSIVE SortFrom(_, _)
SortFrom(data, sorted) ==
    IF data = <<>> THEN sorted ELSE SortFrom(Tail(data), Insert(sorted, Head(data)))

sort(data) == SortFrom(data, <<>>)

(***************************************************************************)
(* Bounded inputs                                                          *)
(***************************************************************************)
SeqsUpTo(S, n) == UNION {[1..k -> S] : k \in 0..n}

\* the strings made of at most n of the tokens
RECURSIVE Concats(_, _)
Concats(tokens, n) ==
    IF n = 0 THEN {""}
    ELSE LET shorter == Concats(tokens, n - 1) IN
         shorter \cup {s \o t : s \in shorter, t \in tokens}

\* records handed to remove_duplicates: case and whitespace variants of one
\* (title, company) pair, pairs with '_' in a field, a record without company
MaxItems == 3
DedupItems ==
    {[title |-> "A_B", company |-> "C", description |-> "first"],
     [title |-> "A", company |-> "B_C", description |-> "second"],
     [title |-> " a_b", company |-> "c ", description |-> "third"],
     [title |-> "A", company |-> "C", description |-> "fourth"],
     [title |-> "a", company |-> "C", description |-> "fifth"],
     [title |-> "A", description |-> "sixth"]}
DedupInputs == SeqsUpTo(DedupItems, MaxItems)

\* entries handed to validate_entry: titles empty, blank and present,
\* descriptions of 9, 10 and 11 characters after trimming
ValidateInputs ==
    {[title |-> t, company |-> "Acme", description |-> d] :
        t \in {"", "  ", "Dev"},
        d \in {"", "123456789", " 123456789 ", "1234567890", " 12345678901"}}
    \cup {[title |-> "Dev"], [description |-> "1234567890"]}

\* arguments of normalize_job_title and normalize_company_name
MaxNameTokens == 2
NameTokens == {" ", "#", ".", "_", "Inc.", "co", "LLC", "acme", "sr", "&lt;", "<b>"}
NameInputs ==
    {PyNone, PyInt(0), PyInt(7)} \cup {PyStr(s) : s \in Concats(NameTokens, MaxNameTokens)}

\* arguments of clean_text
MaxTextTokens == 5
TextTokens == {"a", " ", ".", "#", "<", ">", "&lt;", "&amp;"}
TextInputs(n) == {PyStr(s) : s \in Concats(TextTokens, n)}

\* arguments of classify_experience_level: keywords of the four categories,
\* year patterns, and pieces that make a keyword or a pattern when joined
MaxExperienceTokens == 2
ExperienceTokens ==
    {"Junior ", "Mid ", "SENIOR ", "manager ", "team lead ", "dev ",
     "1 year ", "3+ years ", "10 - years", "2-", "5 years ", "6"}
ExperienceInputs == Concats(ExperienceTokens, MaxExperienceTokens)

\* arguments (title, description, source) of classify_content_type
MaxContentTokens == 2
ContentTokens ==
    {"advice ", "help ", "career ", "hiring ", "interview ", "discussion ",
     "company ", "apply ", "plain "}
ContentTitles == {"", "Why Rust?", "Hiring Dev", "Notes", "Is it?"}
ContentSources == {"StackOverflow", "Reddit", "GitHub", "reddit", ""}
ContentInputs ==
    {<<t, d, s>> : t \in ContentTitles, d \in Concats(ContentTokens, MaxContentTokens),
                   s \in ContentSources}

\* entries of data/raw_jobs.json: any of the six keys may be absent, empty,
\* null or not a string
MaxRaw == 2
RawEntries ==
    {[source |-> PyStr("Reddit"), title |-> PyStr("Sr Dev"), company |-> PyStr("Acme Inc."),
      description |-> PyStr("short"), type |-> PyStr("job"), score |-> PyInt(3)],
     [source |-> PyStr(" Reddit "), title |-> PyStr("sr  dev"), company |-> PyStr("ACME"),
      description |-> PyStr("We are <b>hiring</b> a senior developer"),
      type |-> PyStr("job"), score |-> PyNone],
     [title |-> PyStr("SR DEV"), company |-> PyStr("acme corp"),
      description |-> PyStr("Build APIs")],
     [source |-> PyStr("GitHub"), title |-> PyNone, company |-> PyNone,
      description |-> PyNone, type |-> PyStr("repository"), score |-> PyStr("")],
     [url |-> PyStr("x")],
     [source |-> PyNone, title |-> PyStr("Dev"), company |-> PyStr("X"),
      description |-> PyStr("A long enough description"), type |-> PyStr("job")],
     [source |-> PyStr("HackerNews"), title |-> PyStr("Dev"), company |-> PyStr("X"),
      description |-> PyStr("long enough description here"), type |-> PyInt(1)],
     [source |-> PyStr("StackOverflow"), title |-> PyInt(7), company |-> PyInt(0),
      description |-> PyStr("<p>How to explain  recursion?</p>"),
      type |-> PyStr("question"), score |-> PyInt(12)],
     [title |-> PyStr("###"), company |-> PyStr("Inc."), description |-> PyStr("123456789#")],
     [source |-> PyStr("Reddit"), description |-> PyStr("Another valid description"),
      type |-> PyStr("discussion"), score |-> PyInt(0)],
     [source |-> PyStr(""), title |-> PyStr(""), company |-> PyStr(""),
      description |-> PyInt(5), type |-> PyStr(""), score |-> PyStr("")],
     [source |-> PyStr("GitHub"), title |-> PyStr("a_b"), company |-> PyStr("c"),
      description |-> PyStr("valid description text")],
     [source |-> PyStr("GitHub"), title |-> PyStr("a"), company |-> PyStr("b_c"),
      description |-> PyStr("Some other long description")],
     [source |-> PyStr("GitHub"), title |-> PyStr("unknown position"),
      company |-> PyStr("Co."), description |-> PyStr("a named posting")]}
RawInputs == SeqsUpTo(RawEntries, MaxRaw)

\* arguments of calculate_relevance_score: no text, and texts of 0 to 20
\* keywords and up to MaxScoreTokens * 110 characters, several of one length
MaxScoreTokens == 2
ScoreTokens ==
    {"java ", "code ", "plain", "Git, AWS; ", "javascript",
     "software developer engineer programming code python react node api cloud "
         \o "xxxxxxxxxxxxxxxxxxxxxxxxxxxxxxxxxxxxx",
     "lorem ipsum dolor sit amet, consectetur elit sed do eiusmod tempor ut "
         \o "labore et magna aliqua. zzzzzzzzzzzzzzzz"}
ScoreInputs ==
    {PyNone, PyInt(0)} \cup {PyStr(s) : s \in Concats(ScoreTokens, MaxScoreTokens)}

\* cleaned records handed to annotate_entry; the first four are the entries
\* of the files handed to annotate_data (two of them get one relevance_score)
AnnotateEntries ==
    {[source |-> "GitHub", title |-> "Python Developer", company |-> "Acme",
      description |-> "Remote, Django required", type |-> "job", score |-> PyInt(3)],
     [source |-> "HackerNews", title |-> "Java Engineer", company |-> "Global Bank",
      description |-> "Fortune 500, 5 years of SQL", type |-> "job", score |-> PyInt(7)],
     [source |-> "Reddit", title |-> "Career advice", company |-> "Unknown Company",
      description |-> "How to become a developer at a startup", type |-> "discussion",
      score |-> PyInt(0)],
     [source |-> "Unknown", title |-> "Memo", company |-> "Unknown Company",
      description |-> "plain note", type |-> "job", score |-> PyStr("")]}
CleanedEntries ==
    AnnotateEntries \cup
    {[source |-> "StackOverflow", title |-> "What is Docker?",
      company |-> "Unknown Company", description |-> "Explain docker and aws cloud",
      type |-> "question", score |-> PyInt(12)],
     [source |-> "GitHub", title |-> "Dev", company |-> "X",
      description |-> "code is fun", type |-> "repository", score |-> PyInt(1)],
     [title |-> "Notes", description |-> "plain text here"]}
AnnotateInputs == SeqsUpTo(AnnotateEntries, MaxItems)

\* input files of repeated calls of clean_data and of annotate_data on one
\* instance
MaxCalls == 2
MaxReuseItems == 2
ReuseRawEntries ==
    {[source |-> PyStr("GitHub"), title |-> PyStr("a_b"), company |-> PyStr("c"),
      description |-> PyStr("valid description text")],
     [source |-> PyStr("Reddit"), description |-> PyStr("Another valid description"),
      type |-> PyStr("discussion"), score |-> PyInt(0)],
     [source |-> PyStr("Reddit"), title |-> PyStr("Sr Dev"), company |-> PyStr("Acme Inc."),
      description |-> PyStr("short"), type |-> PyStr("job"), score |-> PyInt(3)]}
ReuseRawInputs == SeqsUpTo(ReuseRawEntries, MaxReuseItems)
ReuseCleanedEntries ==
    {[source |-> "GitHub", title |-> "Python Developer", company |-> "Acme",
      description |-> "Remote, Django required", type |-> "job", score |-> PyInt(3)],
     [source |-> "Reddit", title |-> "Career advice", company |-> "Unknown Company",
      description |-> "How to become a developer at a startup", type |-> "discussion",
      score |-> PyInt(0)],
     [source |-> "Unknown", title |-> "Memo", company |-> "Unknown Company",
      description |-> "plain note", type |-> "job", score |-> PyStr("")]}
ReuseCleanedInputs == SeqsUpTo(ReuseCleanedEntries, MaxReuseItems)

NoFile == [exists |-> FALSE, data |-> <<>>]
File(data) == [exists |-> TRUE, data |-> data]

(***************************************************************************)
(* The state machine.  A behaviour is either a run of main() (pc walks the  *)
(* stages) or one call of a function on a drawn argument (pc = "call",     *)
(* then "returned").                                                       *)
(***************************************************************************)
\* the state before main() or the call under study has done anything
Fresh ==
    /\ raw_file = NoFile /\ cleaned_data = <<>> /\ cleaned_file = NoFile
    /\ annotated_data = <<>> /\ annotated_file = NoFile /\ main_ret = "none"

InitMain == pc = "scrape" /\ op = "main" /\ arg = <<>> /\ ret = <<>> /\ Fresh

InitCall(name, inputs) == pc = "call" /\ op = name /\ arg \in inputs /\ ret = <<>> /\ Fresh

Init ==
    \/ InitMain
    \/ InitCall("normalize_job_title", NameInputs)
    \/ InitCall("normalize_company_name", NameInputs)
    \/ InitCall("remove_duplicates", DedupInputs)
    \/ InitCall("validate_entry", ValidateInputs)
    \/ InitCall("classify_experience_level", ExperienceInputs)
    \/ InitCall("classify_content_type", ContentInputs)
    \/ InitCall("calculate_relevance_score", ScoreInputs)
    \/ InitCall("annotate_entry", CleanedEntries)
    \/ InitCall("annotate_data", AnnotateInputs)

\* the call of function `name` returns: its result is recorded in ret
Call(name, result) ==
    /\ pc = "call" /\ op = name
    /\ pc' = "returned" /\ ret' = result
    /\ UNCHANGED <<op, arg, raw_file, cleaned_data, cleaned_file, annotated_data,
                   annotated_file, main_ret>>

Returned(name) == pc = "returned" /\ op = name

CallCleanText == Call("clean_text", clean_text(arg))

CallNormalizeJobTitle == Call("normalize_job_title", normalize_job_title(arg))

CallNormalizeCompanyName == Call("normalize_company_name", normalize_company_name(arg))

CallRemoveDuplicates == Call("remove_duplicates", remove_duplicates(arg))

CallValidateEntry == Call("validate_entry", validate_entry(arg))

CallClassifyExperienceLevel ==
    Call("classify_experience_level", classify_experience_level(arg))

CallClassifyContentType ==
    Call("classify_content_type", classify_content_type(arg[1], arg[2], arg[3]))

CallCalculateRelevanceScore ==
    Call("calculate_relevance_score", calculate_relevance_score(arg))

CallAnnotateEntry == Call("annotate_entry", annotate_entry(arg))

\* What the file operations of a stage do once its input is read: all
\* succeed ("ok"), open() of the JSON output raises ("write_error"), or the
\* JSON is written and open() of the CSV raises ("csv_error").
SaveOutcomes == {"ok", "write_error", "csv_error"}

\* clean_data(input_file, output_file), input_file holding `input`; pc becomes
\* `returned` when it returns and `raised` when it raises
clean_data(input, returned, raised) ==
    \/ \* open(input_file) raises
       /\ pc' = raised
       /\ UNCHANGED <<cleaned_data, cleaned_file, ret>>
    \/ \* an entry raises in the loop
       /\ input.exists
       /\ CleanLoop(input.data, cleaned_data).raised
       /\ cleaned_data' = CleanLoop(input.data, cleaned_data).data
       /\ pc' = raised
       /\ UNCHANGED <<cleaned_file, ret>>
    \/ \* the loop ends: remove_duplicates, save_cleaned_data, return
       /\ input.exists
       /\ ~CleanLoop(input.data, cleaned_data).raised
       /\ cleaned_data' = remove_duplicates(CleanLoop(input.data, cleaned_data).data)
       /\ \E io \in SaveOutcomes :
             /\ cleaned_file' = IF io = "write_error" THEN cleaned_file
                                ELSE File(cleaned_data')
             /\ ret' = IF io = "ok" THEN Append(ret, Len(cleaned_data')) ELSE ret
             /\ pc' = IF io = "ok" THEN returned ELSE raised

\* annotate_data(input_file, output_file), input_file holding `input`
annotate_data(input, returned, raised) ==
    \/ \* open(input_file) raises
       /\ pc' = raised
       /\ UNCHANGED <<annotated_data, annotated_file, ret>>
    \/ \* the loop, the sort, save_annotated_data, return
       /\ input.exists
       /\ annotated_data' = sort(AnnotateLoop(input.data, annotated_data))
       /\ \E io \in SaveOutcomes :
             /\ annotated_file' = IF io = "write_error" THEN annotated_file
                                  ELSE File(annotated_data')
             /\ ret' = IF io = "ok" THEN Append(ret, Len(annotated_data')) ELSE ret
             /\ pc' = IF io = "ok" THEN returned ELSE raised

\* main(): the stage that follows a stage
Successor(stage) ==
    CASE stage = "scrape" -> "clean"
      [] stage = "clean" -> "annotate"
      [] stage = "annotate" -> "done"

\* a handler that reports the error and lets main() go on
main_except_GoesOn(stage) == Successor(stage)

\* main(): except Exception as e: print(..); return False
main_except(stage) == stage \o "_failed"

\* what main() has returned when its control is at p
main_returned(p) ==
    IF p = "done" THEN "True"
    ELSE IF p \in {"scrape_failed", "clean_failed", "annotate_failed"} THEN "False"
    ELSE "none"

\* main(), step 1: scraper.scrape_all() collects entries (it catches what the
\* sources raise), scraper.save_raw_data() writes data/raw_jobs.json
ScrapeAll ==
    /\ pc = "scrape" /\ op = "main"
    /\ \E data \in RawInputs, io \in SaveOutcomes :
          /\ raw_file' = IF io = "write_error" THEN raw_file ELSE File(data)
          /\ pc' = IF io = "ok" THEN Successor("scrape") ELSE main_except("scrape")
    /\ main_ret' = main_returned(pc')
    /\ UNCHANGED <<op, arg, ret, cleaned_data, cleaned_file, annotated_data,
                   annotated_file>>

\* main(), step 2: cleaner.clean_data("data/raw_jobs.json", "data/cleaned_jobs.json")
CleanData ==
    /\ pc = "clean" /\ op = "main"
    /\ clean_data(raw_file, Successor("clean"), main_except("clean"))
    /\ main_ret' = main_returned(pc')
    /\ UNCHANGED <<op, arg, raw_file, annotated_data, annotated_file>>

\* main(), step 3: annotator.annotate_data("data/cleaned_jobs.json",
\* "data/annotated_jobs.json"), then the summary and return True
AnnotateData ==
    /\ pc = "annotate" /\ op = "main"
    /\ annotate_data(cleaned_file, Successor("annotate"), main_except("annotate"))
    /\ main_ret' = main_returned(pc')
    /\ UNCHANGED <<op, arg, raw_file, cleaned_data, cleaned_file>>

\* one call of annotate_data on a DataAnnotator, the input file holding arg
CallAnnotateData ==
    /\ pc = "call" /\ op = "annotate_data"
    /\ annotate_data(File(arg), "returned", "raised")
    /\ UNCHANGED <<op, arg, raw_file, cleaned_data, cleaned_file, main_ret>>

\* one call of clean_data on a DataCleaner, the input file holding arg
CallCleanData ==
    /\ pc = "call" /\ op = "clean_data"
    /\ clean_data(File(arg), "returned", "raised")
    /\ UNCHANGED <<op, arg, raw_file, annotated_data, annotated_file, main_ret>>

\* the caller writes another input file and calls the same instance again
CallAgain(name, inputs) ==
    /\ pc = "returned" /\ op = name
    /\ Len(ret) < MaxCalls
    /\ arg' \in inputs
    /\ pc' = "call"
    /\ UNCHANGED <<op, ret, raw_file, cleaned_data, cleaned_file, annotated_data,
                   annotated_file, main_ret>>

CleanDataAgain == CallAgain("clean_data", ReuseRawInputs)

AnnotateDataAgain == CallAgain("annotate_data", ReuseCleanedInputs)

Next ==
    \/ CallNormalizeJobTitle
    \/ CallNormalizeCompanyName
    \/ CallRemoveDuplicates
    \/ CallValidateEntry
    \/ CallClassifyExperienceLevel
    \/ CallClassifyContentType
    \/ CallCalculateRelevanceScore
    \/ CallAnnotateEntry
    \/ CallAnnotateData
    \/ ScrapeAll
    \/ CleanData
    \/ AnnotateData

Spec == Init /\ [][Next]_vars

\* clean_text on every text of TextInputs
InitCleanText == InitCall("clean_text", TextInputs(MaxTextTokens))
NextCleanText == CallCleanText
SpecCleanText == InitCleanText /\ [][NextCleanText]_vars

\* one DataCleaner, or one DataAnnotator, called up to MaxCalls times, each
\* time on another input file
InitReuse ==
    \/ InitCall("clean_data", ReuseRawInputs)
    \/ InitCall("annotate_data", ReuseCleanedInputs)
NextReuse ==
    \/ CallCleanData
    \/ CallAnnotateData
    \/ CleanDataAgain
    \/ AnnotateDataAgain
SpecReuse == InitReuse /\ [][NextReuse]_vars

(***************************************************************************)
(* Properties                                                              *)
(***************************************************************************)
\* the (title, company) pair of a record after lowercasing and trimming
NormPair(item) ==
    <<strip(lower(get(item, "title", ""))), strip(lower(get(item, "company", "")))>>

NoSharedPair(data) ==
    \A i, j \in 1..Len(data) : i < j => NormPair(data[i]) # NormPair(data[j])

\* the records of data at the indices of idx, in input order
RECURSIVE Pick(_, _, _)
Pick(data, idx, i) ==
    IF i > Len(data) THEN <<>>
    ELSE (IF i \in idx THEN <<data[i]>> ELSE <<>>) \o Pick(data, idx, i + 1)

\* C1: what remove_duplicates returns, and what clean_data leaves in
\* cleaned_data when it returns, holds no two records whose titles are equal
\* after lowercasing and trimming and whose companies are too.
C1_NoSharedPair ==
    /\ Returned("remove_duplicates") => NoSharedPair(ret)
    /\ pc = "annotate" => NoSharedPair(cleaned_data) /\ cleaned_file = File(cleaned_data)

C1_Witness ==
    /\ Returned("remove_duplicates")
    /\ Len(ret) = 2 /\ Len(arg) = 3
    /\ \E i, j \in 1..Len(arg) : i < j /\ arg[i] # arg[j] /\ NormPair(arg[i]) = NormPair(arg[j])

\* C2: remove_duplicates drops a record exactly when an earlier record of the
\* input has the same lowercased, trimmed title and the same lowercased,
\* trimmed company; records that differ in either field are both kept.
C2_DroppedIffSamePair ==
    Returned("remove_duplicates") =>
        ret = Pick(arg, {i \in 1..Len(arg) :
                            \A j \in 1..(i - 1) : NormPair(arg[j]) # NormPair(arg[i])}, 1)

\* C3: remove_duplicates returns the records of its input that are the first
\* to carry their key, unchanged and in input order.
C3_FirstOccurrenceInOrder ==
    Returned("remove_duplicates") =>
        ret = Pick(arg, {i \in 1..Len(arg) :
                            \A j \in 1..(i - 1) : dedup_key(arg[j]) # dedup_key(arg[i])}, 1)

C3_Witness ==
    /\ Returned("remove_duplicates")
    /\ Len(arg) = 3
    /\ arg[1] # arg[3] /\ arg[1].title # arg[2].title
    /\ NormPair(arg[1]) = NormPair(arg[3])
    /\ ret = <<arg[1], arg[2]>>

\* C4: clean_text is idempotent: cleaning a cleaned text changes nothing.
C4_CleanTextIdempotent ==
    Returned("clean_text") => clean_text(PyStr(ret)) = ret

\* the raw entry's description after cleaning
RawDescription(entry) == clean_text(get(entry, "description", PyStr("")))

\* the raw entry's normalized (title, company), lowercased and trimmed
RawPair(entry) ==
    <<strip(lower(normalize_job_title(get(entry, "title", PyStr(""))))),
      strip(lower(normalize_company_name(get(entry, "company", PyStr("")))))>>

ShortThenLong(raw) ==
    /\ Len(raw) = 2
    /\ ~EntryRaises(raw[1]) /\ ~EntryRaises(raw[2])
    /\ RawPair(raw[1]) = RawPair(raw[2])
    /\ Len(RawDescription(raw[1])) < 10
    /\ Len(RawDescription(raw[2])) >= 10

\* C5: validation runs before deduplication.  Of two raw records with the
\* same normalized (title, company), the first with a cleaned description
\* under 10 characters and the second with one of at least 10, exactly the
\* second is in the output; and in every input a record that passes
\* validation and is the first valid record with its key is in the output,
\* whatever invalid records with that key come before it.
C5_ValidationBeforeDedup ==
    pc = "annotate" =>
        /\ ShortThenLong(raw_file.data) =>
              /\ Len(cleaned_data) = 1
              /\ cleaned_data[1].description = RawDescription(raw_file.data[2])
              /\ NormPair(cleaned_data[1]) = RawPair(raw_file.data[2])
        /\ \A j \in 1..Len(raw_file.data) :
              LET e == cleaned_entry(raw_file.data[j]) IN
              (/\ Len(e.description) >= 10
               /\ \A k \in 1..(j - 1) :
                     LET f == cleaned_entry(raw_file.data[k]) IN
                     Len(f.description) >= 10 => dedup_key(f) # dedup_key(e))
              => \E i \in 1..Len(cleaned_data) : cleaned_data[i] = e

C5_Witness ==
    /\ pc = "annotate"
    /\ ShortThenLong(raw_file.data)
    /\ Len(cleaned_data) = 1

\* C6: every record of cleaned_data has a description of at least 10
\* characters and a non-empty title; validate_entry returns false exactly
\* when the trimmed title is empty or the trimmed description has fewer than
\* 10 characters.
C6_ValidatedRecords ==
    /\ \A i \in 1..Len(cleaned_data) :
          Len(cleaned_data[i].description) >= 10 /\ cleaned_data[i].title # ""
    /\ Returned("validate_entry") =>
          (ret = FALSE <=> (\/ strip(get(arg, "title", "")) = ""
                            \/ Len(strip(get(arg, "description", ""))) < 10))

C6_Witness ==
    /\ pc = "annotate"
    /\ Len(raw_file.data) = 2 /\ Len(cleaned_data) = 1
    /\ \E i \in 1..2 : ~EntryRaises(raw_file.data[i]) /\ Len(RawDescription(raw_file.data[i])) = 9
    /\ \E i \in 1..2 : ~EntryRaises(raw_file.data[i]) /\ Len(RawDescription(raw_file.data[i])) = 10

\* C7: clean_data never raises on a record whose fields are absent, empty,
\* null or not strings: when it raises, no record of the input made it raise.
C7_CleanDataNeverRaises ==
    pc = "clean_failed" => ~CleanLoop(raw_file.data, <<>>).raised

\* every character of s is whitespace or a character clean_text removes
RECURSIVE OnlyRemoved(_)
OnlyRemoved(s) ==
    s = "" \/ ((IsSpace(Ch(s, 1)) \/ ~IsKept(Ch(s, 1))) /\ OnlyRemoved(Tail(s)))

\* s is one legal-entity suffix, with or without its '.', and nothing else
OnlySuffix(s) ==
    \E w \in {"inc", "ltd", "llc", "corp", "corporation", "company", "co"} :
        lower(strip(s)) \in {w, w \o "."}

\* C8: normalize_job_title and normalize_company_name return their sentinels
\* when the input is missing, not a string or normalizes to the empty string,
\* and never return an empty or whitespace-only string.
C8_Sentinels ==
    /\ Returned("normalize_job_title") =>
          /\ strip(ret) # ""
          /\ (~isinstance_str(arg) \/ OnlyRemoved(arg.s) \/ clean_text(arg) = "")
                => ret = "Unknown Position"
    /\ Returned("normalize_company_name") =>
          /\ strip(ret) # ""
          /\ (~isinstance_str(arg) \/ OnlyRemoved(arg.s) \/ clean_text(arg) = ""
                \/ OnlySuffix(arg.s))
                => ret = "Unknown Company"

C8_Witness ==
    /\ Returned("normalize_company_name")
    /\ arg = PyStr("Inc.")
    /\ ret = "Unknown Company"

\* the category's trigger list in a keyword table
TriggersOf(table, category) ==
    LET row == CHOOSE i \in 1..Len(table) : table[i][1] = category IN
    {table[row][2][k] : k \in 1..Len(table[row][2])}

HasTrigger(text, table, category) ==
    \E kw \in TriggersOf(table, category) : Contains(text, kw)

\* r is any number of '+', '-' and whitespace followed by "year"
YearTail(r) ==
    \E k \in 0..Len(r) :
        /\ \A m \in 1..k : IsYearSep(Ch(r, m))
        /\ StartsWith(Drop(r, k), "year")

\* the numbers N of all "N year(s)" patterns of text
YearNumbers(text) ==
    {int(SubSeq(text, p[1], p[2])) :
        p \in {q \in (1..Len(text)) \X (1..Len(text)) :
                  /\ q[1] <= q[2]
                  /\ \A m \in q[1]..q[2] : IsDigit(Ch(text, m))
                  /\ YearTail(Drop(text, q[2]))}}

ExperienceOrder == <<"Entry Level", "Mid Level", "Senior Level", "Management">>

\* C9: classify_experience_level returns one of the five levels: the first
\* category, in the order Entry Level, Mid Level, Senior Level, Management,
\* with a trigger in the lowercased text; with no such category, the level of
\* the largest N of the "N year(s)" patterns (N <= 2 Entry Level, N <= 5 Mid
\* Level, else Senior Level); with neither, "Not Specified".
C9_FirstCategoryThenYears ==
    Returned("classify_experience_level") =>
        LET text == lower(arg)
            hits == {i \in 1..4 : HasTrigger(text, experience_keywords, ExperienceOrder[i])}
            years == YearNumbers(text)
        IN  /\ ret \in {"Entry Level", "Mid Level", "Senior Level", "Management",
                        "Not Specified"}
            /\ hits # {} =>
                  ret = ExperienceOrder[CHOOSE i \in hits : \A j \in hits : i <= j]
            /\ (hits = {} /\ years # {}) =>
                  LET n == CHOOSE y \in years : \A z \in years : z <= y IN
                  ret = IF n <= 2 THEN "Entry Level"
                        ELSE IF n <= 5 THEN "Mid Level" ELSE "Senior Level"
            /\ (hits = {} /\ years = {}) => ret = "Not Specified"

C9_Witness ==
    /\ Returned("classify_experience_level")
    /\ HasTrigger(lower(arg), experience_keywords, "Senior Level")
    /\ HasTrigger(lower(arg), experience_keywords, "Management")
    /\ YearNumbers(lower(arg)) = {1}
    /\ ret = "Senior Level"

\* C10: classify_content_type follows the chain: source "StackOverflow" gives
\* "Interview Question"; else source "Reddit" with advice, help or career in
\* the text gives "Career Advice"; else the first category of the table, in
\* the order Job Description, Interview Question, Career Advice, Technical
\* Discussion, Company Info, with a keyword in the text; else "Job
\* Description" on apply, position or hiring; else "Interview Question" when
\* the title holds '?'; else "Technical Discussion".
C10_ContentTypeChain ==
    Returned("classify_content_type") =>
        LET text == lower(arg[1] \o " " \o arg[2])
            Has(words) == \E w \in words : Contains(text, w)
            InTable(category) == HasTrigger(text, content_types, category)
        IN  /\ ret \in {"Job Description", "Interview Question", "Career Advice",
                        "Technical Discussion", "Company Info"}
            /\ ret = IF arg[3] = "StackOverflow" THEN "Interview Question"
                     ELSE IF arg[3] = "Reddit" /\ Has({"advice", "help", "career"})
                          THEN "Career Advice"
                     ELSE IF InTable("Job Description") THEN "Job Description"
                     ELSE IF InTable("Interview Question") THEN "Interview Question"
                     ELSE IF InTable("Career Advice") THEN "Career Advice"
                     ELSE IF InTable("Technical Discussion") THEN "Technical Discussion"
                     ELSE IF InTable("Company Info") THEN "Company Info"
                     ELSE IF Has({"apply", "position", "hiring"}) THEN "Job Description"
                     ELSE IF Contains(arg[1], "?") THEN "Interview Question"
                     ELSE "Technical Discussion"

C10_Witness ==
    /\ Returned("classify_content_type")
    /\ arg[3] = "Reddit"
    /\ Contains(arg[2], "advice") /\ Contains(arg[2], "hiring")
    /\ ret = "Career Advice"

\* the number of technology keywords that occur in the lowercased text
KeywordCount(text) ==
    Cardinality({kw \in {tech_keywords[i] : i \in 1..Len(tech_keywords)} :
                    Contains(lower(text), kw)})

\* min(min(k/10, 1) + min(L/1000, 0.2), 1) in thousandths
ScoreFormula(k, L) ==
    LET base == IF k * 100 <= 1000 THEN k * 100 ELSE 1000
        bonus == IF L <= 200 THEN L ELSE 200
    IN  IF base + bonus <= 1000 THEN base + bonus ELSE 1000

\* (length, number of keywords, score in thousandths) of the non-empty texts
\* of ScoreInputs
ScoreTable ==
    {<<Len(x.s), KeywordCount(x.s), calculate_relevance_score(x).th>> :
        x \in {y \in ScoreInputs : Truthy(y)}}

\* C11: calculate_relevance_score lies in [0, 1] (0 to 1000 thousandths); it
\* is exactly 0 for an empty or absent text; for a non-empty text of length L
\* with k technology keywords it is min(min(k/10, 1) + min(L/1000, 0.2), 1);
\* and of two texts of one length, the one with at least as many keywords
\* scores at least as much.
C11_ScoreBoundedMonotonic ==
    Returned("calculate_relevance_score") =>
        /\ 0 <= ret.th /\ ret.th <= 1000
        /\ ~Truthy(arg) => ret.th = 0
        /\ Truthy(arg) =>
              LET k == KeywordCount(arg.s) IN
              /\ ret.th = ScoreFormula(k, Len(arg.s))
              /\ \A other \in ScoreTable :
                    (other[1] = Len(arg.s) /\ other[2] <= k) => other[3] <= ret.th

C11_Witness ==
    /\ Returned("calculate_relevance_score")
    /\ Truthy(arg) /\ Len(arg.s) = 220 /\ KeywordCount(arg.s) = 10
    /\ ret.th = 1000
    /\ \E other \in ScoreTable : other[1] = 220 /\ other[2] = 0 /\ other[3] = 200

AnnotationFields ==
    {"skill_tags", "experience_level", "content_type", "relevance_score",
     "text_length", "has_requirements", "remote_work", "company_size"}

CleanedFields == {"source", "title", "company", "description", "type", "score"}

\* C12: annotate_entry leaves its input record as it was, and returns a record
\* with the fields of the input, each with the input's value (so source,
\* title, company, description, type and score are the input's), and the eight
\* annotation fields and no other; text_length is the number of characters of
\* the input's description.
C12_AnnotateEntryFrame ==
    /\ [](Returned("annotate_entry") =>
            /\ arg \in CleanedEntries
            /\ DOMAIN arg \cap AnnotationFields = {}
            /\ DOMAIN ret = DOMAIN arg \cup AnnotationFields
            /\ \A f \in DOMAIN arg : ret[f] = arg[f]
            /\ ret.text_length = Len(get(arg, "description", "")))
    /\ [][op = "annotate_entry" => arg' = arg]_vars

C12_Witness ==
    /\ Returned("annotate_entry")
    /\ DOMAIN arg = CleanedFields
    /\ Cardinality(DOMAIN ret) = 14
    /\ arg.title # "" /\ ret.text_length = Len(arg.description)
    /\ ret.title = arg.title /\ ret.score = arg.score

\* `out` holds the annotated records of `cleaned`, each once, by descending
\* relevance_score, records of equal relevance_score in the order of `cleaned`
SortedStably(cleaned, out) ==
    LET n == Len(cleaned)
        annotated == <<>> \o [i \in 1..n |-> annotate_entry(cleaned[i])]
    IN  /\ Len(out) = n
        /\ \A i \in 1..(n - 1) : out[i].relevance_score >= out[i + 1].relevance_score
        /\ \E p \in [1..n -> 1..n] :
              /\ \A i, j \in 1..n : i # j => p[i] # p[j]
              /\ \A i \in 1..n : out[i] = annotated[p[i]]
              /\ \A i, j \in 1..n :
                    (i < j /\ out[i].relevance_score = out[j].relevance_score)
                        => p[i] < p[j]

\* C13: after annotate_data, annotated_data (and the file it saved) holds the
\* annotated records of the cleaned input, each once, in descending order of
\* relevance_score, and records of equal relevance_score keep the relative
\* order they have in the cleaned input.
C13_SortedStable ==
    /\ Returned("annotate_data") =>
          SortedStably(arg, annotated_data) /\ annotated_file = File(annotated_data)
    /\ pc = "done" =>
          SortedStably(cleaned_file.data, annotated_data)
              /\ annotated_file = File(annotated_data)

C13_Witness ==
    /\ Returned("annotate_data")
    /\ Len(arg) = 3
    /\ annotated_data[1].relevance_score = annotated_data[2].relevance_score
    /\ annotated_data[2].relevance_score > annotated_data[3].relevance_score
    /\ annotated_data[1].title = arg[2].title
    /\ annotated_data[2].title = arg[3].title
    /\ annotated_data[3].title = arg[1].title
    /\ arg[2].title # arg[3].title

MainStages ==
    {"scrape", "clean", "annotate", "done", "scrape_failed", "clean_failed",
     "annotate_failed"}

\* the moves of main()'s control
MainMoves ==
    {<<"scrape", "clean">>, <<"scrape", "scrape_failed">>,
     <<"clean", "annotate">>, <<"clean", "clean_failed">>,
     <<"annotate", "done">>, <<"annotate", "annotate_failed">>}

\* what holds at each position of main()
StagesInOrder ==
    op = "main" =>
        /\ pc \in MainStages
        \* clean starts after scrape has saved data/raw_jobs.json
        /\ pc \notin {"scrape", "scrape_failed"} => raw_file.exists
        \* before clean has run, nothing is cleaned
        /\ pc \in {"scrape", "scrape_failed", "clean"} =>
              cleaned_data = <<>> /\ cleaned_file = NoFile /\ ret = <<>>
        \* annotate starts after clean has returned and saved its output
        /\ pc \in {"annotate", "done", "annotate_failed"} =>
              /\ Len(ret) >= 1 /\ ret[1] = Len(cleaned_data)
              /\ cleaned_file = File(cleaned_data)
        \* before annotate has run, nothing is annotated
        /\ pc \notin {"done", "annotate_failed"} =>
              annotated_data = <<>> /\ annotated_file = NoFile
        \* True exactly when the three stages have completed
        /\ main_ret = "True" <=> pc = "done"
        /\ pc = "done" =>
              /\ raw_file.exists /\ cleaned_file.exists
              /\ annotated_file = File(annotated_data)
              /\ ret = <<Len(cleaned_data), Len(annotated_data)>>
        \* False exactly when a stage has raised
        /\ main_ret = "False" <=> pc \in {"scrape_failed", "clean_failed", "annotate_failed"}

\* C14: main() runs scrape, clean and annotate in this order, each stage
\* after the stage before it has completed and saved its output; when a stage
\* raises, no later stage starts and main returns False; main returns True
\* only when the three stages have completed.
C14_StagesInOrder ==
    /\ []StagesInOrder
    /\ [][op = "main" => <<pc, pc'>> \in MainMoves]_vars

C14_Witness ==
    /\ op = "main" /\ pc = "done" /\ main_ret = "True"
    /\ Len(raw_file.data) = 2 /\ Len(annotated_data) = 2

\* what one call of clean_data saves for an input file
CleanedOf(raw) == remove_duplicates(CleanLoop(raw, <<>>).data)

\* C15: in any sequence of calls on one instance, each call of clean_data
\* saves exactly the validated, deduplicated records of the file it was given
\* and returns their number, and each call of annotate_data saves exactly one
\* annotated record per record of the file it was given and returns their
\* number; no record of an earlier call is among them.
C15_CallsIndependent ==
    /\ Returned("clean_data") =>
          /\ cleaned_file = File(CleanedOf(arg))
          /\ ret[Len(ret)] = Len(CleanedOf(arg))
    /\ Returned("annotate_data") =>
          /\ SortedStably(arg, annotated_file.data)
          /\ ret[Len(ret)] = Len(arg)

\* classify_content_type without the fallback step
classify_content_type_WithoutFallback(t, description, source) ==
    LET combined_text == lower(t \o " " \o description)
        content_type == KeywordLoop(content_types, combined_text, 1)
    IN  IF source = "StackOverflow" THEN "Interview Question"
        ELSE IF source = "Reddit"
                /\ ContainsAny(combined_text, <<"advice", "help", "career">>)
        THEN "Career Advice"
        ELSE IF content_type # "" THEN content_type
        ELSE IF Contains(t, "?") THEN "Interview Question"
        ELSE "Technical Discussion"

\* control of classify_content_type(t, description, source) reaches the
\* fallback step
ReachesFallback(t, description, source) ==
    LET combined_text == lower(t \o " " \o description) IN
    /\ source # "StackOverflow"
    /\ ~(source = "Reddit" /\ ContainsAny(combined_text, <<"advice", "help", "career">>))
    /\ KeywordLoop(content_types, combined_text, 1) = ""

\* C16: the fallback step of classify_content_type never decides the result:
\* whenever control reaches it, the combined text holds none of apply,
\* position and hiring, and the function without the step returns the same
\* result on every input.
C16_FallbackNeverDecides ==
    Returned("classify_content_type") =>
        /\ ReachesFallback(arg[1], arg[2], arg[3]) =>
              ~ContainsAny(lower(arg[1] \o " " \o arg[2]), <<"apply", "position", "hiring">>)
        /\ ret = classify_content_type_WithoutFallback(arg[1], arg[2], arg[3])

C16_Witness ==
    /\ Returned("classify_content_type")
    /\ ReachesFallback(arg[1], arg[2], arg[3])
    /\ Contains(arg[1], "?")
    /\ ret = "Interview Question"

\* the raw entry has no usable value under key: the key is absent, or its
\* value is empty, null or not a string
Missing(entry, key) ==
    LET v == get(entry, key, PyStr("")) IN ~Truthy(v) \/ ~isinstance_str(v)

Nameless(entry) == Missing(entry, "title") /\ Missing(entry, "company")

SentinelPair == <<"unknown position", "unknown company">>

\* the indices of the records of raw whose cleaned description is valid
ValidIn(raw) == {i \in 1..Len(raw) : Len(RawDescription(raw[i])) >= 10}

\* the records of data that carry the sentinel pair
RECURSIVE WithSentinels(_)
WithSentinels(data) ==
    IF data = <<>> THEN <<>>
    ELSE (IF NormPair(Head(data)) = SentinelPair THEN <<Head(data)>> ELSE <<>>)
             \o WithSentinels(Tail(data))

Least(S) == CHOOSE i \in S : \A j \in S : i <= j

\* the validator's title check rejects no record of clean_data: a record
\* passes exactly when its cleaned description has 10 characters or more
TitleCheckIdle(raw) ==
    \A i \in 1..Len(raw) :
        LET e == cleaned_entry(raw[i]) IN
        /\ strip(e.title) # ""
        /\ validate_entry(e) <=> Len(e.description) >= 10

\* C17 (as amended): in a clean_data that returns, the title check rejects no
\* record (a record survives validation exactly when its cleaned description
\* has at least 10 characters); the valid records without title and company
\* all carry ("Unknown Position", "Unknown Company"); and exactly one record
\* with that pair survives deduplication, the first valid record that carries
\* it, so no nameless record but the first survives.
C17_SentinelRecordsCollapse ==
    pc = "annotate" =>
        LET raw == raw_file.data
            nameless == {i \in ValidIn(raw) : Nameless(raw[i])}
            carriers == {i \in ValidIn(raw) : RawPair(raw[i]) = SentinelPair}
        IN  /\ TitleCheckIdle(raw)
            /\ nameless \subseteq carriers
            /\ carriers = {} => WithSentinels(cleaned_data) = <<>>
            /\ carriers # {} =>
                  WithSentinels(cleaned_data) = <<cleaned_entry(raw[Least(carriers)])>>

C17_Witness ==
    /\ pc = "annotate"
    /\ Len(raw_file.data) = 2
    /\ Nameless(raw_file.data[1]) /\ Nameless(raw_file.data[2])
    /\ raw_file.data[1] # raw_file.data[2]
    /\ ValidIn(raw_file.data) = {1, 2}
    /\ cleaned_data = <<cleaned_entry(raw_file.data[1])>>

\* C17 (as stated): ... and of the valid records without title and company,
\* the first survives deduplication and no other does.
C17_FirstNamelessSurvives ==
    pc = "annotate" =>
        LET raw == raw_file.data
            nameless == {i \in ValidIn(raw) : Nameless(raw[i])}
        IN  /\ TitleCheckIdle(raw)
            /\ nameless # {} =>
                  WithSentinels(cleaned_data) = <<cleaned_entry(raw[Least(nameless)])>>

=============================================================================
